---- MODULE Spec2Model ----
(***************************************************************************)
(* Model of combiner.py: merge the tables of a folder into one workbook,   *)
(* one sheet per table, with sanitized, length-bounded, case-insensitively *)
(* unique sheet names.                                                     *)
(*                                                                         *)
(* A string is a sequence of one-character strings, so that slicing,       *)
(* lower-casing, sanitizing and number formatting are computed character   *)
(* by character as the Python code computes them.                          *)
(***************************************************************************)
EXTENDS Integers, Sequences, FiniteSets, TLC

VARIABLES
    folderExists,   \* os.path.isdir(folder)
    folder,         \* the directory's entries (a set of records)
    outName,        \* args.output_name
    run,            \* 1 for the first invocation of main, 2 for the second
    pc,             \* position in main / collect_tables / uniquify_and_truncate / save_to_excel
    exitStatus,     \* process exit status, -1 while running
    files,          \* list_input_files' result
    fi,             \* index of the file the loop of collect_tables is at
    dfs,            \* collect_tables: dfs
    planned_names,  \* collect_tables: planned_names
    nreads,         \* number of reader calls made so far in this run
    caller,         \* who called uniquify_and_truncate
    names,          \* uniquify_and_truncate: names
    max_len,        \* uniquify_and_truncate: max_len
    ni,             \* index of the raw name the for loop is at
    base,           \* uniquify_and_truncate: base
    candidate,      \* uniquify_and_truncate: candidate
    idx,            \* uniquify_and_truncate: idx
    seen,           \* uniquify_and_truncate: the keys of seen
    result,         \* uniquify_and_truncate: result
    ks,             \* per accepted name, the suffix index it carries (0: none)
    tried,          \* the candidates the while loop has tested for the current name
    final_names,    \* collect_tables: final_names
    sinkCreated,    \* the ExcelWriter of this run was opened
    sink,           \* the sheets written by this run, in order
    wi,             \* index of the pair the loop of save_to_excel is at
    firstRun        \* the sheets written by the first run

vars == <<folderExists, folder, outName, run, pc, exitStatus, files, fi, dfs,
          planned_names, nreads, caller, names, max_len, ni, base, candidate,
          idx, seen, result, ks, tried, final_names, sinkCreated, sink, wi,
          firstRun>>

pipeVars == <<folderExists, folder, outName, run, exitStatus, files, fi, dfs,
              planned_names, nreads, sinkCreated, sink, wi, firstRun>>

uniqVars == <<names, max_len, ni, base, candidate, idx, seen, result, ks, tried>>

----------------------------------------------------------------------------
(* Bounds of the model *)

\* longest input sequence drawn over RawNames
MaxNames == 3
\* longest input sequence made of one repeated raw name (reaches two-digit suffixes)
MaxRepeat == 11
\* largest number of entries in the input folder
MaxEntries == 3

----------------------------------------------------------------------------
(* Characters and strings *)

UpperChars == <<"A","B","C","D","E","F","G","H","I","J","K","L","M",
                "N","O","P","Q","R","S","T","U","V","W","X","Y","Z">>

LowerChars == <<"a","b","c","d","e","f","g","h","i","j","k","l","m",
                "n","o","p","q","r","s","t","u","v","w","x","y","z">>

DigitChars == <<"0","1","2","3","4","5","6","7","8","9">>

\* the character class [:\\/\?\*\[\]]
IllegalChars == {":", "\\", "/", "?", "*", "[", "]"}

\* the whitespace characters \s / str.strip() act on, as far as the model's inputs use them
SpaceChars == {" ", "\t"}

LowerChar(c) ==
    IF \E i \in DOMAIN UpperChars : UpperChars[i] = c
    THEN LowerChars[CHOOSE i \in DOMAIN UpperChars : UpperChars[i] = c]
    ELSE c

\* str.lower()
StrLower(s) == [i \in 1..Len(s) |-> LowerChar(s[i])]

Min(a, b) == IF a < b THEN a ELSE b
Max(a, b) == IF a > b THEN a ELSE b

\* Python's s[:n], n of either sign
SliceTo(s, n) ==
    IF n >= 0 THEN SubSeq(s, 1, Min(n, Len(s)))
    ELSE SubSeq(s, 1, Max(Len(s) + n, 0))

\* str(n) for n >= 0
RECURSIVE IntToStr(_)
IntToStr(n) ==
    IF n < 10 THEN <<DigitChars[n + 1]>>
    ELSE IntToStr(n \div 10) \o <<DigitChars[(n % 10) + 1]>>

\* str.strip(): drop leading and trailing whitespace
RECURSIVE LStrip(_)
LStrip(s) ==
    IF s # <<>> /\ Head(s) \in SpaceChars THEN LStrip(Tail(s)) ELSE s

RECURSIVE RStrip(_)
RStrip(s) ==
    IF s # <<>> /\ s[Len(s)] \in SpaceChars THEN RStrip(SubSeq(s, 1, Len(s) - 1)) ELSE s

Strip(s) == RStrip(LStrip(s))

\* re.sub(r'[:\\/\?\*\[\]]', " ", name)
ReplaceIllegal(s) == [i \in 1..Len(s) |-> IF s[i] \in IllegalChars THEN " " ELSE s[i]]

\* re.sub(r"\s+", " ", name): every maximal run of whitespace becomes one space
RECURSIVE CollapseSpaces(_)
CollapseSpaces(s) ==
    IF s = <<>> THEN <<>>
    ELSE IF Head(s) \in SpaceChars
         THEN <<" ">> \o CollapseSpaces(LStrip(s))
         ELSE <<Head(s)>> \o CollapseSpaces(Tail(s))

SheetLiteral == <<"S","h","e","e","t">>

\* a plausible slip: the illegal characters are left in place
SanitizeKeepIllegal(name) ==
    LET n == CollapseSpaces(Strip(name))
    IN  IF n = <<>> THEN SheetLiteral ELSE n

sanitize_sheet_name(name) ==
    LET n == CollapseSpaces(Strip(ReplaceIllegal(name)))
    IN  IF n = <<>> THEN SheetLiteral ELSE n

\* f"_{idx}"
FormatSuffix(i) == <<"_">> \o IntToStr(i)

\* a plausible slip: the base is never truncated to make room for the suffix
SuffixedNoTruncate(b, suffix, m) == b \o suffix

\* line 61: the candidate built from base and suffix under max_len m
Suffixed(b, suffix, m) ==
    IF Len(b) + Len(suffix) > m
    THEN SliceTo(b, m - Len(suffix)) \o suffix
    ELSE b \o suffix

\* a plausible slip: the sanitized name is not cut to max_len
TruncatedBaseNoCut(raw, m) == sanitize_sheet_name(raw)

\* line 56: sanitize_sheet_name(raw)[:max_len]
TruncatedBase(raw, m) == SliceTo(sanitize_sheet_name(raw), m)

\* line 57: base if base else "Sheet"
FirstCandidate(b) == IF b # <<>> THEN b ELSE SheetLiteral

\* a plausible slip: the key keeps the candidate's letter case
SeenKeyCaseSensitive(c) == c

\* candidate.lower(), the key under which seen records and tests a name
SeenKey(c) == StrLower(c)

\* a plausible slip: the index is not advanced
NextIdxStuck(i) == i

\* line 62: idx += 1
NextIdx(i) == i + 1

----------------------------------------------------------------------------
(* Inputs of uniquify_and_truncate *)

MAX_SHEETNAME_LEN == 31

\* 31 characters
Long31 == <<"a","b","c","d","e","f","g","h","i","j","k","l","m","n","o","p",
            "q","r","s","t","u","v","w","x","y","z","A","B","C","D","E">>

RawNames ==
    { <<"R","e","p","o","r","t">>,
      <<"A">>,
      <<"a">>,
      <<"A","_","1">>,
      <<"/">>,
      <<>>,
      <<" ","\t">>,
      <<" ","q","?","\t","*","s"," ">>,
      Long31 }

\* the values of max_len the function is called with
MaxLens == {1, 3, MAX_SHEETNAME_LEN}

\* all sequences over S of length at most n
SeqsUpTo(S, n) == UNION { [1..k -> S] : k \in 0..n }

Repeat(x, n) == [i \in 1..n |-> x]

NameLists ==
    SeqsUpTo(RawNames, MaxNames)
        \cup { Repeat(<<"A">>, n) : n \in (MaxNames + 1)..MaxRepeat }

\* raw names that collide with one another once sanitized and lower-cased
CollidingNames == { <<"A">>, <<"a">>, <<"A","_","1">> }

CollidingLists ==
    SeqsUpTo(CollidingNames, MaxNames)
        \cup { Repeat(<<"A">>, n) : n \in (MaxNames + 1)..MaxRepeat }

----------------------------------------------------------------------------
(* uniquify_and_truncate, one action per step of its loops *)

\* lines 55-58: the for loop takes the next raw name
UniqNextName ==
    /\ pc = "uniq_for"
    /\ ni <= Len(names)
    /\ base' = TruncatedBase(names[ni], max_len)
    /\ candidate' = FirstCandidate(base')
    /\ idx' = 1
    /\ tried' = {}
    /\ pc' = "uniq_while"
    /\ UNCHANGED <<names, max_len, ni, seen, result, ks>>
    /\ UNCHANGED <<pipeVars, caller, final_names>>

\* lines 59-62: the candidate is in seen, build the next one
UniqRetry ==
    /\ pc = "uniq_while"
    /\ SeenKey(candidate) \in seen
    /\ candidate' = Suffixed(base, FormatSuffix(idx), max_len)
    /\ idx' = NextIdx(idx)
    /\ tried' = tried \cup {candidate}
    /\ UNCHANGED <<names, max_len, ni, base, seen, result, ks, pc>>
    /\ UNCHANGED <<pipeVars, caller, final_names>>

\* lines 59, 63-64: the candidate is not in seen, record and append it
UniqAccept ==
    /\ pc = "uniq_while"
    /\ SeenKey(candidate) \notin seen
    /\ seen' = seen \cup {SeenKey(candidate)}
    /\ result' = Append(result, candidate)
    /\ ks' = Append(ks, idx - 1)
    /\ ni' = ni + 1
    /\ pc' = "uniq_for"
    /\ UNCHANGED <<names, max_len, base, candidate, idx, tried>>
    /\ UNCHANGED <<pipeVars, caller, final_names>>

\* line 65, called directly
UniqReturn ==
    /\ pc = "uniq_for"
    /\ ni > Len(names)
    /\ caller = "direct"
    /\ pc' = "returned"
    /\ UNCHANGED <<uniqVars, pipeVars, caller, final_names>>

\* lines 52-54 for the arguments (ns, m)
UniqEnter(ns, m) ==
    /\ names' = ns
    /\ max_len' = m
    /\ ni' = 1
    /\ seen' = {}
    /\ result' = <<>>
    /\ ks' = <<>>
    /\ pc' = "uniq_for"
    /\ UNCHANGED <<base, candidate, idx, tried>>
    /\ UNCHANGED <<pipeVars, caller, final_names>>

\* a direct call uniquify_and_truncate(names, max_len)
UniqCall ==
    /\ pc = "entry"
    /\ \E ns \in NameLists : \E m \in MaxLens : UniqEnter(ns, m)

\* a direct call on names that collide
UniqCallColliding ==
    /\ pc = "entry"
    /\ \E ns \in CollidingLists : \E m \in MaxLens : UniqEnter(ns, m)

\* before a direct call of uniquify_and_truncate
InitResolve ==
    /\ caller = "direct"
    /\ pc = "entry"
    /\ names = <<>>
    /\ max_len = MAX_SHEETNAME_LEN
    /\ ni = 1
    /\ seen = {}
    /\ result = <<>>
    /\ ks = <<>>
    /\ tried = {}
    /\ base = <<>>
    /\ candidate = <<>>
    /\ idx = 1
    /\ folderExists = FALSE
    /\ folder = {}
    /\ outName = <<>>
    /\ run = 1
    /\ exitStatus = -1
    /\ files = <<>>
    /\ fi = 1
    /\ dfs = <<>>
    /\ planned_names = <<>>
    /\ nreads = 0
    /\ final_names = <<>>
    /\ sinkCreated = FALSE
    /\ sink = <<>>
    /\ wi = 1
    /\ firstRun = <<>>

NextResolve ==
    \/ UniqCall
    \/ UniqNextName
    \/ UniqRetry
    \/ UniqAccept
    \/ UniqReturn

SpecResolve == InitResolve /\ [][NextResolve]_vars

NextColliding ==
    \/ UniqCallColliding
    \/ UniqNextName
    \/ UniqRetry
    \/ UniqAccept
    \/ UniqReturn

\* the code is sequential and nothing suspends it: a step that can be taken is taken
FairResolve == InitResolve /\ [][NextColliding]_vars /\ WF_vars(NextColliding)

----------------------------------------------------------------------------
(* File names, paths and the input folder *)

\* the characters the model uses, in code point order
CodePointOrder ==
    <<"\t", " ", "*", ".", "/">> \o DigitChars \o <<":", "?">> \o UpperChars
        \o <<"[", "\\", "]", "_">> \o LowerChars

\* ord(c)
Ord(c) == CHOOSE i \in DOMAIN CodePointOrder : CodePointOrder[i] = c

\* a < b for Python strings
RECURSIVE StrLess(_, _)
StrLess(a, b) ==
    IF b = <<>> THEN FALSE
    ELSE IF a = <<>> THEN TRUE
    ELSE IF Head(a) # Head(b) THEN Ord(Head(a)) < Ord(Head(b))
    ELSE StrLess(Tail(a), Tail(b))

\* os.path.join(folder, name); the folder is the same throughout
PathJoin(name) == [dir |-> "folder", name |-> name]

\* os.path.basename(path)
Basename(path) == path.name

\* os.path.splitext(name) for a name without separators: split at the last
\* dot unless only dots precede it
SplitExt(name) ==
    LET dots == { i \in DOMAIN name : name[i] = "." }
        d    == IF dots = {} THEN 0 ELSE CHOOSE i \in dots : \A j \in dots : j <= i
    IN  IF d > 0 /\ (\E i \in 1..(d - 1) : name[i] # ".")
        THEN <<SubSeq(name, 1, d - 1), SubSeq(name, d, Len(name))>>
        ELSE <<name, <<>> >>

Stem(name) == SplitExt(name)[1]

\* os.path.splitext(name)[1].lower()
LowerExt(name) == StrLower(SplitExt(name)[2])

EXCEL_EXTS == { <<".","x","l","s","x">>, <<".","x","l","s">> }

CSV_EXTS == { <<".","c","s","v">>, <<".","t","s","v">>, <<".","t","x","t">> }

\* a DataFrame: which table it is (a sequence of tags), and how many columns it has
Table(id, ncols) == [id |-> id, ncols |-> ncols]

\* a directory entry: its name, whether it is a regular file, how its bytes
\* decode ("utf8": the first reader call succeeds; "gbk": pd.read_csv raises
\* UnicodeDecodeError under utf-8 and succeeds under gbk; "fail": the reader
\* raises), and the tables it holds, each under its internal name
Entry(name, kind, decode, sheets) ==
    [name |-> name, kind |-> kind, decode |-> decode, sheets |-> sheets]

Sheet(name, table) == [name |-> name, table |-> table]

Universe ==
    { Entry(<<"A",".","c","s","v">>, "file", "utf8",
            << Sheet(<<>>, Table(<<"tA">>, 2)) >>),
      Entry(<<"a",".","C","S","V">>, "file", "gbk",
            << Sheet(<<>>, Table(<<"ta">>, 1)) >>),
      Entry(<<"R","e","p","o","r","t",".","x","l","s","x">>, "file", "utf8",
            << Sheet(<<"S","h","e","e","t","1">>, Table(<<"tR">>, 3)) >>),
      Entry(<<"B",".","x","l","s">>, "file", "utf8",
            << Sheet(<<"R","e","p","o","r","t">>, Table(<<"tB1">>, 1)),
               Sheet(<<"A","/">>, Table(<<"tB2">>, 0)) >>),
      Entry(<<"b","a","d",".","t","x","t">>, "file", "fail",
            << Sheet(<<>>, Table(<<"tbad">>, 1)) >>),
      Entry(<<"x",".","x","l","s","x">>, "file", "fail",
            << Sheet(<<"S","1">>, Table(<<"tx">>, 1)) >>),
      Entry(<<"n","o","t","e","s",".","m","d">>, "file", "utf8", <<>>),
      Entry(<<"d",".","c","s","v">>, "dir", "utf8", <<>>) }

\* the values of --output-name
OutNames == { <<"o",".","x","l","s","x">>, <<"o",".","x","l","s","m">> }

\* the orders in which os.listdir may return the entries of S
Listings(S) ==
    { o \in [1..Cardinality(S) -> S] : \A i, j \in DOMAIN o : i # j => o[i] # o[j] }

\* line 33: the sort key
SortKey(path) == StrLower(Basename(path))

\* list.sort inserts stably: x goes after every element whose key is not greater
RECURSIVE InsertStable(_, _)
InsertStable(sorted, x) ==
    IF sorted = <<>> THEN <<x>>
    ELSE IF StrLess(SortKey(x), SortKey(Head(sorted)))
         THEN <<x>> \o sorted
         ELSE <<Head(sorted)>> \o InsertStable(Tail(sorted), x)

RECURSIVE SortStable(_)
SortStable(paths) ==
    IF paths = <<>> THEN <<>>
    ELSE InsertStable(SortStable(SubSeq(paths, 1, Len(paths) - 1)), paths[Len(paths)])

\* lines 27-30: a regular file with a supported extension
Supported(e) == e.kind = "file" /\ LowerExt(e.name) \in EXCEL_EXTS \cup CSV_EXTS

\* lines 24-31: the paths kept, in listing order
RECURSIVE KeepSupported(_)
KeepSupported(listing) ==
    IF listing = <<>> THEN <<>>
    ELSE (IF Supported(Head(listing)) THEN <<PathJoin(Head(listing).name)>> ELSE <<>>)
            \o KeepSupported(Tail(listing))

\* lines 23-34, for the order os.listdir returned
list_input_files(listing) == SortStable(KeepSupported(listing))

\* the entry a path names
EntryOf(path) == CHOOSE e \in folder : e.name = Basename(path)

\* a plausible slip: a reader error is swallowed and the file is merged anyway
ReadOutcomeSwallow(e) == "ok"

\* lines 68-83: what the readers do with the file: pd.read_csv under utf-8,
\* then under gbk after a UnicodeDecodeError; pd.ExcelFile / pd.read_excel
ReadOutcome(e) ==
    IF LowerExt(e.name) \in CSV_EXTS
    THEN (IF e.decode \in {"utf8", "gbk"} THEN "ok" ELSE "raise")
    ELSE (IF e.decode = "utf8" THEN "ok" ELSE "raise")

\* a plausible slip: the single sheet keeps its internal name
SingleSheetNameInternal(stem, sheets) == sheets[1].name

\* lines 109-111: the name proposed for a single-sheet workbook
SingleSheetName(stem, sheets) == stem

\* a plausible slip: the names are paired with the tables back to front
ZipReversed(ds, ns) ==
    [i \in 1..Min(Len(ds), Len(ns)) |-> <<ds[i], ns[Len(ns) + 1 - i]>>]

\* zip(dfs, sheet_names)
Zip(ds, ns) == [i \in 1..Min(Len(ds), Len(ns)) |-> <<ds[i], ns[i]>>]

\* lines 144-146: a table without columns gets the one column "(empty)"
WithPlaceholder(df) ==
    IF df.ncols = 0 THEN [df EXCEPT !.ncols = 1] ELSE df

\* the workbook save_to_excel leaves at out_path: its sheets, read back as new tables
SavedWorkbook(name, written) ==
    Entry(name, "file", "utf8",
          [i \in DOMAIN written |->
              Sheet(written[i].name, Table(<<"saved">> \o written[i].table.id, written[i].table.ncols))])

----------------------------------------------------------------------------
(* main, collect_tables and save_to_excel *)

\* lines 169-177: the folder check
MainCheckFolder ==
    /\ pc = "main"
    /\ IF folderExists
       THEN pc' = "list" /\ UNCHANGED exitStatus
       ELSE pc' = "exit" /\ exitStatus' = 1
    /\ UNCHANGED <<folderExists, folder, outName, run, files, fi, dfs, planned_names,
                   nreads, sinkCreated, sink, wi, firstRun>>
    /\ UNCHANGED <<uniqVars, caller, final_names>>

\* lines 92-98: list_input_files and the empty check
CollectList ==
    /\ pc = "list"
    /\ \E listing \in Listings(folder) :
          /\ files' = list_input_files(listing)
          /\ IF files' = <<>>
             THEN pc' = "exit" /\ exitStatus' = 1
             ELSE pc' = "collect" /\ UNCHANGED exitStatus
    /\ fi' = 1
    /\ dfs' = <<>>
    /\ planned_names' = <<>>
    /\ UNCHANGED <<folderExists, folder, outName, run, nreads, sinkCreated, sink, wi,
                   firstRun>>
    /\ UNCHANGED <<uniqVars, caller, final_names>>

\* lines 100-112: a workbook with one sheet
CollectExcelSingle ==
    /\ pc = "collect"
    /\ fi <= Len(files)
    /\ LET e == EntryOf(files[fi])
       IN  /\ LowerExt(Basename(files[fi])) \in EXCEL_EXTS
           /\ ReadOutcome(e) = "ok"
           /\ Len(e.sheets) = 1
           /\ dfs' = Append(dfs, e.sheets[1].table)
           /\ planned_names' =
                 Append(planned_names, SingleSheetName(Stem(Basename(files[fi])), e.sheets))
    /\ nreads' = nreads + 1
    /\ fi' = fi + 1
    /\ UNCHANGED <<folderExists, folder, outName, run, exitStatus, files, sinkCreated,
                   sink, wi, firstRun, pc>>
    /\ UNCHANGED <<uniqVars, caller, final_names>>

\* lines 100-106, 113-118: a workbook with several sheets
CollectExcelMulti ==
    /\ pc = "collect"
    /\ fi <= Len(files)
    /\ LET e == EntryOf(files[fi])
       IN  /\ LowerExt(Basename(files[fi])) \in EXCEL_EXTS
           /\ ReadOutcome(e) = "ok"
           /\ Len(e.sheets) # 1
           /\ dfs' = dfs \o [i \in DOMAIN e.sheets |-> e.sheets[i].table]
           /\ planned_names' = planned_names \o [i \in DOMAIN e.sheets |-> e.sheets[i].name]
    /\ nreads' = nreads + 1
    /\ fi' = fi + 1
    /\ UNCHANGED <<folderExists, folder, outName, run, exitStatus, files, sinkCreated,
                   sink, wi, firstRun, pc>>
    /\ UNCHANGED <<uniqVars, caller, final_names>>

\* lines 100-104, 120-125: a delimited text file
CollectCsv ==
    /\ pc = "collect"
    /\ fi <= Len(files)
    /\ LET e == EntryOf(files[fi])
       IN  /\ LowerExt(Basename(files[fi])) \in CSV_EXTS
           /\ ReadOutcome(e) = "ok"
           /\ dfs' = Append(dfs, e.sheets[1].table)
           /\ planned_names' = Append(planned_names, Stem(Basename(files[fi])))
    /\ nreads' = nreads + 1
    /\ fi' = fi + 1
    /\ UNCHANGED <<folderExists, folder, outName, run, exitStatus, files, sinkCreated,
                   sink, wi, firstRun, pc>>
    /\ UNCHANGED <<uniqVars, caller, final_names>>

\* lines 106, 122: the reader raises; nothing catches it and the process ends
CollectRaises ==
    /\ pc = "collect"
    /\ fi <= Len(files)
    /\ ReadOutcome(EntryOf(files[fi])) = "raise"
    /\ nreads' = nreads + 1
    /\ pc' = "exit"
    /\ exitStatus' = 1
    /\ UNCHANGED <<folderExists, folder, outName, run, files, fi, dfs, planned_names,
                   sinkCreated, sink, wi, firstRun>>
    /\ UNCHANGED <<uniqVars, caller, final_names>>

\* line 128: the loop over the files is over, uniquify_and_truncate is called
CollectCallUniquify ==
    /\ pc = "collect"
    /\ fi > Len(files)
    /\ UniqEnter(planned_names, MAX_SHEETNAME_LEN)

\* lines 65, 128-135, 179-180: the names come back to collect_tables and main
UniqReturnToCollect ==
    /\ pc = "uniq_for"
    /\ ni > Len(names)
    /\ caller = "collect_tables"
    /\ final_names' = result
    /\ pc' = "save"
    /\ UNCHANGED <<uniqVars, pipeVars, caller>>

\* lines 138-141: the writer is opened
SaveOpenWriter ==
    /\ pc = "save"
    /\ sinkCreated' = TRUE
    /\ sink' = <<>>
    /\ wi' = 1
    /\ pc' = "write"
    /\ UNCHANGED <<folderExists, folder, outName, run, exitStatus, files, fi, dfs,
                   planned_names, nreads, firstRun>>
    /\ UNCHANGED <<uniqVars, caller, final_names>>

\* lines 142-147: one sheet is written
SaveWriteSheet ==
    /\ pc = "write"
    /\ wi <= Len(Zip(dfs, final_names))
    /\ LET pair == Zip(dfs, final_names)[wi]
       IN  sink' = Append(sink, [table |-> WithPlaceholder(pair[1]), name |-> pair[2]])
    /\ wi' = wi + 1
    /\ UNCHANGED <<folderExists, folder, outName, run, exitStatus, files, fi, dfs,
                   planned_names, nreads, sinkCreated, firstRun, pc>>
    /\ UNCHANGED <<uniqVars, caller, final_names>>

\* lines 141, 148, 181: the writer is closed, the workbook is in the folder, main ends
SaveCloseWriter ==
    /\ pc = "write"
    /\ wi > Len(Zip(dfs, final_names))
    /\ folder' = { e \in folder : e.name # outName } \cup {SavedWorkbook(outName, sink)}
    /\ firstRun' = IF run = 1 THEN sink ELSE firstRun
    /\ pc' = "done"
    /\ exitStatus' = 0
    /\ UNCHANGED <<folderExists, outName, run, files, fi, dfs, planned_names, nreads,
                   sinkCreated, sink, wi>>
    /\ UNCHANGED <<uniqVars, caller, final_names>>

\* lines 184-185: main is run a second time with the same arguments
RunAgain ==
    /\ pc = "done"
    /\ run = 1
    /\ run' = 2
    /\ pc' = "main"
    /\ exitStatus' = -1
    /\ files' = <<>>
    /\ fi' = 1
    /\ dfs' = <<>>
    /\ planned_names' = <<>>
    /\ nreads' = 0
    /\ final_names' = <<>>
    /\ sinkCreated' = FALSE
    /\ sink' = <<>>
    /\ wi' = 1
    /\ UNCHANGED <<folderExists, folder, outName, firstRun, caller>>
    /\ UNCHANGED uniqVars

\* the process has been started on some folder, with some output name
Init ==
    /\ folderExists \in BOOLEAN
    /\ folder \in { S \in SUBSET Universe : Cardinality(S) <= MaxEntries }
    /\ (~folderExists => folder = {})
    /\ outName \in OutNames
    /\ run = 1
    /\ pc = "main"
    /\ exitStatus = -1
    /\ files = <<>>
    /\ fi = 1
    /\ dfs = <<>>
    /\ planned_names = <<>>
    /\ nreads = 0
    /\ caller = "collect_tables"
    /\ names = <<>>
    /\ max_len = MAX_SHEETNAME_LEN
    /\ ni = 1
    /\ base = <<>>
    /\ candidate = <<>>
    /\ idx = 1
    /\ seen = {}
    /\ result = <<>>
    /\ ks = <<>>
    /\ tried = {}
    /\ final_names = <<>>
    /\ sinkCreated = FALSE
    /\ sink = <<>>
    /\ wi = 1
    /\ firstRun = <<>>

Next ==
    \/ MainCheckFolder
    \/ CollectList
    \/ CollectExcelSingle
    \/ CollectExcelMulti
    \/ CollectCsv
    \/ CollectRaises
    \/ CollectCallUniquify
    \/ UniqNextName
    \/ UniqRetry
    \/ UniqAccept
    \/ UniqReturnToCollect
    \/ SaveOpenWriter
    \/ SaveWriteSheet
    \/ SaveCloseWriter
    \/ RunAgain

Spec == Init /\ [][Next]_vars

----------------------------------------------------------------------------
(* Properties of uniquify_and_truncate *)

RawReport == <<"R","e","p","o","r","t">>

Returned == pc = "returned"

\* C1: no two names of the result are equal once lower-cased, whatever the
\* input: duplicates, names differing only in letter case, raw names that
\* already look like a suffixed name.
C1_Unique ==
    \A i \in DOMAIN result : \A j \in DOMAIN result :
        i # j => StrLower(result[i]) # StrLower(result[j])

\* "A", "a" and "A_1" have all been resolved: "A", "a_1", "A_1_1"
C1_Witness ==
    /\ Returned
    /\ max_len = MAX_SHEETNAME_LEN
    /\ names = << <<"A">>, <<"a">>, <<"A","_","1">> >>
    /\ result = << <<"A">>, <<"a","_","1">>, <<"A","_","1","_","1">> >>

\* C2 as stated: every returned name has at most max_len characters, for
\* every max_len >= 1 and whatever the number of digits of the suffix index.
C2_LengthBound ==
    max_len >= 1 => \A j \in DOMAIN result : Len(result[j]) <= max_len

\* C2 amended: a returned name has at most max_len characters when it carries
\* no suffix or when its suffix "_k" itself has at most max_len characters.
C2_LengthBoundWhenSuffixFits ==
    \A j \in DOMAIN result :
        (ks[j] = 0 \/ Len(FormatSuffix(ks[j])) <= max_len)
            => Len(result[j]) <= max_len

\* a suffixed name whose base was cut so that it fills max_len = 31 exactly
C2_Witness ==
    /\ Returned
    /\ max_len = MAX_SHEETNAME_LEN
    /\ \E j \in DOMAIN result :
          /\ ks[j] >= 1
          /\ Len(sanitize_sheet_name(names[j])) = max_len
          /\ Len(result[j]) = max_len

OnlyIllegalOrSpace(raw) == \A i \in DOMAIN raw : raw[i] \in IllegalChars \cup SpaceChars

\* C3: every returned name is non-empty and free of : \ / ? * [ ], and a raw
\* name that sanitizes to nothing resolves to "Sheet" (cut to max_len) or to
\* that base with a numeric suffix.
C3_Valid ==
    \A j \in DOMAIN result :
        /\ result[j] # <<>>
        /\ \A i \in DOMAIN result[j] : result[j][i] \notin IllegalChars
        /\ OnlyIllegalOrSpace(names[j]) =>
              LET sb == SliceTo(SheetLiteral, max_len)
              IN  \/ ks[j] = 0 /\ result[j] = sb
                  \/ /\ ks[j] >= 1
                     /\ result[j] =
                           (IF Len(sb) + Len(FormatSuffix(ks[j])) > max_len
                            THEN SliceTo(sb, max_len - Len(FormatSuffix(ks[j])))
                            ELSE sb) \o FormatSuffix(ks[j])

\* an all-illegal name, an empty name and a whitespace-only name resolved
C3_Witness ==
    /\ Returned
    /\ max_len = MAX_SHEETNAME_LEN
    /\ names = << <<"/">>, <<>>, <<" ","\t">> >>
    /\ result = << SheetLiteral, SheetLiteral \o <<"_","1">>, SheetLiteral \o <<"_","2">> >>

\* the candidate for suffix index k as C8 states it
RefCandidate(b, k, m) ==
    LET sfx == <<"_">> \o IntToStr(k)
    IN  IF Len(b) + Len(sfx) <= m THEN b \o sfx
        ELSE SliceTo(b, m - Len(sfx)) \o sfx

\* the candidate of the smallest k >= k0 whose lower-cased form is not in used
RECURSIVE RefFirstFree(_, _, _, _)
RefFirstFree(b, k, used, m) ==
    IF StrLower(RefCandidate(b, k, m)) \notin used
    THEN RefCandidate(b, k, m)
    ELSE RefFirstFree(b, k + 1, used, m)

\* the reference algorithm, left to right over raws, out being the outputs so far
RECURSIVE RefResolve(_, _, _)
RefResolve(raws, out, m) ==
    IF raws = <<>> THEN out
    ELSE LET b    == SliceTo(sanitize_sheet_name(Head(raws)), m)
             used == { StrLower(out[i]) : i \in DOMAIN out }
             pick == IF StrLower(b) \notin used THEN b ELSE RefFirstFree(b, 1, used, m)
         IN  RefResolve(Tail(raws), Append(out, pick), m)

\* C8: at every point the names accepted so far are the reference algorithm's
\* outputs for the raw names consumed so far (earlier outputs are never
\* revised); two names sanitizing to "Report" give "Report", "Report_1"; a
\* colliding 31-character base gives its first 29 characters and "_1".
C8_MatchesReference ==
    /\ result = RefResolve(SubSeq(names, 1, Len(result)), <<>>, max_len)
    /\ (Returned /\ max_len = MAX_SHEETNAME_LEN /\ names = <<RawReport, RawReport>>)
          => result = <<RawReport, RawReport \o <<"_","1">> >>
    /\ (Returned /\ max_len = MAX_SHEETNAME_LEN /\ names = <<Long31, Long31>>)
          => /\ result[2] = SubSeq(Long31, 1, 29) \o <<"_","1">>
             /\ Len(result[2]) = 31

\* the 31-character collision has been resolved
C8_Witness ==
    /\ Returned
    /\ max_len = MAX_SHEETNAME_LEN
    /\ names = <<Long31, Long31>>
    /\ ks = <<0, 1>>

----------------------------------------------------------------------------
(* Properties of the pipeline *)

IsText(e) == LowerExt(e.name) \in CSV_EXTS

\* the number of entries C6 gives a source file
EntriesOf(e) == IF IsText(e) THEN 1 ELSE Len(e.sheets)

\* the number of entries C6 gives the first n enumerated files together
RECURSIVE EntriesBefore(_)
EntriesBefore(n) ==
    IF n = 0 THEN 0 ELSE EntriesBefore(n - 1) + EntriesOf(EntryOf(files[n]))

\* between the enumeration and the saving of the workbook the folder is as enumerated
Collecting == pc \in {"collect", "uniq_for", "uniq_while", "save", "write"}

\* C6: a delimited-text file contributes one entry named by its stem; a
\* workbook with one internal table contributes one entry named by its stem,
\* not by the table's name; a workbook with k > 1 internal tables contributes
\* k entries, in internal order, under the internal names unmodified.
C6_ProposedNames ==
    Collecting =>
        /\ Len(planned_names) = EntriesBefore(fi - 1)
        /\ Len(dfs) = EntriesBefore(fi - 1)
        /\ \A f \in 1..(fi - 1) :
              LET e    == EntryOf(files[f])
                  off  == EntriesBefore(f - 1)
                  stem == Stem(e.name)
              IN  /\ IsText(e) =>
                        /\ EntriesBefore(f) = off + 1
                        /\ planned_names[off + 1] = stem
                  /\ (~IsText(e) /\ Len(e.sheets) = 1) =>
                        /\ EntriesBefore(f) = off + 1
                        /\ planned_names[off + 1] = stem
                  /\ (~IsText(e) /\ Len(e.sheets) > 1) =>
                        /\ EntriesBefore(f) = off + Len(e.sheets)
                        /\ \A j \in DOMAIN e.sheets :
                              planned_names[off + j] = e.sheets[j].name

\* A.csv, B.xls (two sheets) and Report.xlsx (one sheet) have been collected
C6_Witness ==
    /\ pc = "save"
    /\ run = 1
    /\ planned_names = << <<"A">>, RawReport, <<"A","/">>, RawReport >>

\* where the table dfs[i] comes from: <<f, j>> for sheet j of the f-th file
OriginOf(i) ==
    CHOOSE o \in (DOMAIN files) \X (1..Len(dfs)) :
        /\ o[2] \in DOMAIN EntryOf(files[o[1]]).sheets
        /\ EntryOf(files[o[1]]).sheets[o[2]].table = dfs[i]

HasOrigin(i) ==
    \E f \in DOMAIN files : \E j \in DOMAIN EntryOf(files[f]).sheets :
        EntryOf(files[f]).sheets[j].table = dfs[i]

\* the proposed name that belongs to sheet j of entry e
NameBelongingTo(e, j) ==
    IF IsText(e) \/ Len(e.sheets) = 1 THEN Stem(e.name) ELSE e.sheets[j].name

\* C4: when collect_tables returns, tables and final names have the same
\* length, the i-th final name is derived from the i-th proposed name, the
\* i-th proposed name belongs to the i-th table, the tables are in file order
\* and, inside a workbook, in internal order; save_to_excel writes the pairs
\* in that order.
C4_OrderAndPairing ==
    /\ pc \in {"save", "write"} =>
          /\ Len(dfs) = Len(final_names)
          /\ Len(dfs) = Len(planned_names)
          /\ \A i \in DOMAIN dfs :
                /\ HasOrigin(i)
                /\ planned_names[i] =
                      NameBelongingTo(EntryOf(files[OriginOf(i)[1]]), OriginOf(i)[2])
                /\ LET b == SliceTo(sanitize_sheet_name(planned_names[i]), MAX_SHEETNAME_LEN)
                   IN  \/ final_names[i] = b
                       \/ \E k \in 1..Len(dfs) :
                             final_names[i] = RefCandidate(b, k, MAX_SHEETNAME_LEN)
          /\ \A i \in DOMAIN dfs : \A j \in DOMAIN dfs :
                (i < j /\ HasOrigin(i) /\ HasOrigin(j)) =>
                    \/ OriginOf(i)[1] < OriginOf(j)[1]
                    \/ OriginOf(i)[1] = OriginOf(j)[1] /\ OriginOf(i)[2] < OriginOf(j)[2]
    /\ pc \in {"write", "done"} =>
          /\ Len(sink) <= Len(dfs)
          /\ pc = "done" => Len(sink) = Len(dfs)
          /\ \A i \in DOMAIN sink :
                /\ sink[i].table.id = dfs[i].id
                /\ sink[i].name = final_names[i]

\* four sheets written, two of them renamed with a suffix
C4_Witness ==
    /\ pc = "done"
    /\ run = 1
    /\ Len(sink) = 4
    /\ ks = <<0, 0, 1, 1>>

NoSupportedEntry == \A e \in folder : ~Supported(e)

\* C7: the sink is created only after the folder was found, the enumeration
\* was non-empty and every enumerated file was extracted; a missing folder or
\* a folder without supported file exits with status 1 before any extraction
\* or writing; a failing extraction aborts the run with nothing written.
C7_NoPartialMerge ==
    /\ sinkCreated =>
          /\ folderExists
          /\ files # <<>>
          /\ fi = Len(files) + 1
          /\ nreads = Len(files)
          /\ \A i \in DOMAIN files : EntryOf(files[i]).decode # "fail"
    /\ pc = "exit" =>
          /\ exitStatus = 1
          /\ ~sinkCreated
          /\ sink = <<>>
          /\ run = 1 => \A e \in folder : e.name # outName
    /\ (pc = "exit" /\ (~folderExists \/ NoSupportedEntry)) =>
          /\ nreads = 0
          /\ dfs = <<>>
    /\ (\E e \in folder : Supported(e) /\ e.decode = "fail") =>
          /\ ~sinkCreated
          /\ sink = <<>>
          /\ pc \notin {"save", "write", "done"}

\* a.CSV was read through the gbk fallback, then bad.txt failed: no sink
C7_Witness ==
    /\ pc = "exit"
    /\ exitStatus = 1
    /\ nreads = 2
    /\ Len(dfs) = 1
    /\ EntryOf(files[1]).decode = "gbk"
    /\ EntryOf(files[2]).decode = "fail"
    /\ ~sinkCreated

\* C5: for a fixed set of folder entries list_input_files returns the same
\* list whatever order the listing has: the supported regular files,
\* ascending by lower-cased basename.
C5_DeterministicEnumeration ==
    pc = "collect" =>
        /\ \A o \in Listings(folder) : list_input_files(o) = files
        /\ { Basename(files[i]) : i \in DOMAIN files }
              = { e.name : e \in { x \in folder : Supported(x) } }
        /\ \A i \in DOMAIN files : \A j \in DOMAIN files :
              i < j => ~StrLess(StrLower(Basename(files[j])), StrLower(Basename(files[i])))

\* C10: a second run of main on the same folder with the same output name
\* writes the same (table, name) sequence as the first, and does not
\* enumerate the workbook the first run wrote.
C10_RerunStable ==
    (run = 2 /\ pc = "done") =>
        /\ sink = firstRun
        /\ \A i \in DOMAIN files : Basename(files[i]) # outName

====
